---- MODULE Spec2Model ----
(***************************************************************************)
(* Model of the semantic analysis of the MemeAssembly compiler:            *)
(*   - the function analyzer  (parseFunction, checkFunctionValidity)       *)
(*   - the comparison analyzers (checkWhoWouldWinValidity,                 *)
(*     checkTheyreTheSamePictureValidity)                                  *)
(* The command stream is the array built by the parser; C indices are      *)
(* 0-based and are kept 0-based here (Cmd(i) reads arrayPointer[i]).       *)
(***************************************************************************)
EXTENDS Integers, Sequences, FiniteSets, TLC

VARIABLES
    commands,            \* compileState->commandsArray.arrayPointer (size = Len)
    compileMode,         \* compileState->compileMode
    MACOS,               \* TRUE iff the build defines the macro MACOS
    errors,              \* the semantic errors printed so far, in order
    pc,                  \* position in the analyzer that is running
    \* ---- locals of checkFunctionValidity
    functionDefinitions,
    functions,
    functionArrayIndex,
    commandArrayIndex,
    mainFunctionExists,
    nameIndex,           \* the outer loop variable i of the name checks
    \* ---- locals of the comparison analyzers
    comparisons,
    comparisonJumpLabels,
    labelIndex,          \* loop variable i of the duplicate check
    comparisonIndex,     \* loop variable i of the existence check
    jumpMarkerDefined,
    pictureIndex,        \* loop variable i of the second scan
    \* ---- the translator (writeToFile, translateToAssembly)
    commandList,         \* the command table: usedParameters and translationPattern
    optimisationLevel,   \* compileState->optimisationLevel
    useStabs,            \* compileState->useStabs
    randomIndex,         \* compileState->commandsArray.randomIndex
    output,              \* what was written to outputFile, one element for each piece
    translatorState,     \* struct translatorState: currentFunctionName, DNLABEL
    translateIndex,      \* loop variable i of the translation loop
    lookaheadReads,      \* the indices index + 1 read by translateToAssembly so far
    run,                 \* which call of writeToFile is running (1 or 2)
    firstOutput,         \* the output of the first call
    \* ---- template expansion on its own
    expandResult         \* the line written for commands[1] and the size of its buffer

vars == << commands, compileMode, MACOS, errors, pc,
           functionDefinitions, functions, functionArrayIndex, commandArrayIndex,
           mainFunctionExists, nameIndex,
           comparisons, comparisonJumpLabels, labelIndex, comparisonIndex,
           jumpMarkerDefined, pictureIndex,
           commandList, optimisationLevel, useStabs, randomIndex,
           output, translatorState, translateIndex, lookaheadReads, run, firstOutput,
           expandResult >>

functionVars == << functionDefinitions, functions, functionArrayIndex,
                   commandArrayIndex, mainFunctionExists, nameIndex >>

comparisonVars == << comparisons, comparisonJumpLabels, labelIndex,
                     comparisonIndex, jumpMarkerDefined, pictureIndex >>

translatorVars == << commandList, optimisationLevel, useStabs, randomIndex,
                     output, translatorState, translateIndex,
                     lookaheadReads, run, firstOutput >>

expandVars == << expandResult >>

-----------------------------------------------------------------------------
(* Bounds of the model *)

MaxLen == 4              \* longest command stream
MaxLineStride == 2       \* source lines between two consecutive commands

-----------------------------------------------------------------------------
(* The command stream *)

\* The opcodes the analyzers are called with. The declaration opcode is 0 and
\* the three returns follow it. The command table is not part of these sources:
\* the two comparison opcodes stand for the values their callers pass; the
\* analyzers rely only on the label opcode being the comparison opcode plus one.
functionDeclarationOpcode == 0
whoWouldWinOpcode == 20
comparisonOpcode == 22

NullParameter == "<null>"

parsedCommand(opcode, p0, p1, lineNum) ==
    [ opcode     |-> opcode,
      parameters |-> << p0, p1 >>,
      isPointer  |-> 0,
      lineNum    |-> lineNum,
      translate  |-> 1 ]

size == Len(commands)

Cmd(i) == commands[i + 1]

Param(cmd, k) == cmd.parameters[k + 1]

\* strcmp(a, b) == 0
StrEq(a, b) == a = b

-----------------------------------------------------------------------------
(* The diagnostics collaborator: it accumulates the errors *)

printSemanticError(errs, message, lineNum) ==
    Append(errs, [ message |-> message, lineNum |-> lineNum ])

printSemanticErrorWithExtraLineNumber(errs, message, lineNum, extraLineNum) ==
    Append(errs, [ message |-> message, lineNum |-> lineNum,
                   extraLineNum |-> extraLineNum ])

MsgNoFunction   == "Statement does not belong to any function"
MsgExpectedRet  == "Expected a return statement, but got a new function definition"
MsgNoReturn     == "No return statement found"
MsgDuplicateFn  == "Duplicate function definition"
MsgNoMain       == "An executable cannot be created if no main-function exists"
MsgMarkerTwice  == "Comparison jump markers cannot be defined twice"
MsgNoFirst      == "No comparison jump marker defined for first parameter"
MsgNoSecond     == "No comparison jump marker defined for second parameter"
MsgNoPicture    == "\"they're the same picture\" wasn't defined anywhere"

-----------------------------------------------------------------------------
(* parseFunction *)

\* mutant: the last opcode of the return family is not taken for a return
IsReturnOpcode_TwoReturns(opcode, declOpcode) ==
    opcode > declOpcode /\ opcode <= declOpcode + 2

\* the return test of parseFunction: the three opcodes after the declaration
IsReturnOpcode(opcode, declOpcode) ==
    opcode > declOpcode /\ opcode <= declOpcode + 3

\* mutant: the first return ends the function instead of the last one
RECURSIVE ParseLoop_FirstReturnWins(_, _, _, _, _)
ParseLoop_FirstReturnWins(start, declOpcode, index, functionEndIndex, errs) ==
    IF ~(start + index < size)
    THEN [ index |-> index, functionEndIndex |-> functionEndIndex, errs |-> errs ]
    ELSE LET cmd == Cmd(start + index) IN
         IF cmd.opcode = declOpcode
         THEN [ index |-> index,
                functionEndIndex |-> functionEndIndex,
                errs |-> IF functionEndIndex = 0
                         THEN printSemanticError(errs, MsgExpectedRet, cmd.lineNum)
                         ELSE errs ]
         ELSE ParseLoop_FirstReturnWins(start, declOpcode, index + 1,
                        IF cmd.opcode > declOpcode /\ cmd.opcode <= declOpcode + 3
                           /\ functionEndIndex = 0
                        THEN index ELSE functionEndIndex,
                        errs)

\* The while loop of parseFunction, from the state (index, functionEndIndex,
\* errs) to the state at its exit.
RECURSIVE ParseLoop(_, _, _, _, _)
ParseLoop(start, declOpcode, index, functionEndIndex, errs) ==
    IF ~(start + index < size)
    THEN [ index |-> index, functionEndIndex |-> functionEndIndex, errs |-> errs ]
    ELSE LET cmd == Cmd(start + index) IN
         IF cmd.opcode = declOpcode
         THEN [ index |-> index,
                functionEndIndex |-> functionEndIndex,
                errs |-> IF functionEndIndex = 0
                         THEN printSemanticError(errs, MsgExpectedRet, cmd.lineNum)
                         ELSE errs ]
         ELSE ParseLoop(start, declOpcode, index + 1,
                        IF IsReturnOpcode(cmd.opcode, declOpcode)
                        THEN index ELSE functionEndIndex,
                        errs)

\* mutant: a function without a return is not reported
parseFunction_MissingReturnUnreported(functionStartAtIndex, declOpcode, errs) ==
    LET functionStart == Cmd(functionStartAtIndex)
        loop == ParseLoop(functionStartAtIndex, declOpcode, 1, 0, errs)
    IN  [ function |-> [ name             |-> Param(functionStart, 0),
                         definedInLine    |-> functionStart.lineNum,
                         numberOfCommands |-> loop.functionEndIndex ],
          errs |-> loop.errs ]

\* parseFunction: the descriptor it returns and the errors after the call
parseFunction(functionStartAtIndex, declOpcode, errs) ==
    LET functionStart == Cmd(functionStartAtIndex)
        loop == ParseLoop(functionStartAtIndex, declOpcode, 1, 0, errs)
    IN  [ function |-> [ name             |-> Param(functionStart, 0),
                         definedInLine    |-> functionStart.lineNum,
                         numberOfCommands |-> loop.functionEndIndex ],
          errs |-> IF loop.functionEndIndex = 0
                   THEN printSemanticError(loop.errs, MsgNoReturn, functionStart.lineNum)
                   ELSE loop.errs ]

-----------------------------------------------------------------------------
(* checkFunctionValidity *)

executable == "executable"
objectFile == "objectFile"

mainFuncName == IF MACOS THEN "_main" ELSE "main"

\* mutant: the first pass does not look at the last command
RECURSIVE CountOpcode_MissesLast(_, _)
CountOpcode_MissesLast(opcode, n) ==
    IF n = 0 THEN 0
    ELSE CountOpcode_MissesLast(opcode, n - 1)
         + (IF n < size /\ Cmd(n - 1).opcode = opcode THEN 1 ELSE 0)

\* the first pass: how many function definitions there are
RECURSIVE CountOpcode(_, _)
CountOpcode(opcode, n) ==
    IF n = 0 THEN 0
    ELSE CountOpcode(opcode, n - 1) + (IF Cmd(n - 1).opcode = opcode THEN 1 ELSE 0)

\* calloc(sizeof(struct function), n): n zeroed descriptors
ZeroFunction == [ name |-> NullParameter, definedInLine |-> 0, numberOfCommands |-> 0 ]

CallocFunctions(n) == [ k \in 1..n |-> ZeroFunction ]

\* lines 89-109: count the definitions, allocate the array, start the walk
CountFunctionDefinitions ==
    /\ pc = "fn_count"
    /\ functionDefinitions' = CountOpcode(functionDeclarationOpcode, size)
    /\ functions' = CallocFunctions(functionDefinitions')
    /\ functionArrayIndex' = 0
    /\ commandArrayIndex' = 0
    /\ pc' = "fn_walk"
    /\ UNCHANGED << commands, compileMode, MACOS, errors, mainFunctionExists,
                    nameIndex, comparisonVars,
                    translatorVars, expandVars >>

\* lines 111-118: between two functions, a command that is no declaration
ReportStatement ==
    /\ pc = "fn_walk"
    /\ commandArrayIndex < size
    /\ Cmd(commandArrayIndex).opcode # functionDeclarationOpcode
    /\ errors' = printSemanticError(errors, MsgNoFunction, Cmd(commandArrayIndex).lineNum)
    /\ commandArrayIndex' = commandArrayIndex + 1
    /\ UNCHANGED << commands, compileMode, MACOS, pc, functionDefinitions, functions,
                    functionArrayIndex, mainFunctionExists, nameIndex, comparisonVars,
                    translatorVars, expandVars >>

\* mutant: the cursor skips the command after the function's last return
NextCommandArrayIndex_SkipsOne(index, function) ==
    index + function.numberOfCommands + 2

\* the cursor after a function was parsed (line 127)
NextCommandArrayIndex(index, function) == index + function.numberOfCommands + 1

\* lines 124-129: the cursor is at a declaration
ParseNextFunction ==
    /\ pc = "fn_walk"
    /\ commandArrayIndex < size
    /\ Cmd(commandArrayIndex).opcode = functionDeclarationOpcode
    /\ LET parsed == parseFunction(commandArrayIndex, functionDeclarationOpcode, errors)
       IN  /\ functions' = [ functions EXCEPT ![functionArrayIndex + 1] = parsed.function ]
           /\ errors' = parsed.errs
           /\ commandArrayIndex' = NextCommandArrayIndex(commandArrayIndex, parsed.function)
    /\ functionArrayIndex' = functionArrayIndex + 1
    /\ UNCHANGED << commands, compileMode, MACOS, pc, functionDefinitions,
                    mainFunctionExists, nameIndex, comparisonVars,
                    translatorVars, expandVars >>

\* lines 110, 120-122, 137: the walk is over, the name checks start
EndOfWalk ==
    /\ pc = "fn_walk"
    /\ commandArrayIndex >= size
    /\ mainFunctionExists' = 0
    /\ nameIndex' = 0
    /\ pc' = "fn_names"
    /\ UNCHANGED << commands, compileMode, MACOS, errors, functionDefinitions, functions,
                    functionArrayIndex, commandArrayIndex, comparisonVars,
                    translatorVars, expandVars >>

\* mutant: the two line numbers of the duplicate error are swapped
RECURSIVE DuplicateFunctionLoop_Swapped(_, _, _)
DuplicateFunctionLoop_Swapped(i, j, errs) ==
    IF ~(j < functionDefinitions) THEN errs
    ELSE DuplicateFunctionLoop_Swapped(i, j + 1,
            IF StrEq(functions[i + 1].name, functions[j + 1].name)
            THEN printSemanticErrorWithExtraLineNumber(errs, MsgDuplicateFn,
                     functions[i + 1].definedInLine, functions[j + 1].definedInLine)
            ELSE errs)

\* lines 153-157: the inner loop over the later descriptors
RECURSIVE DuplicateFunctionLoop(_, _, _)
DuplicateFunctionLoop(i, j, errs) ==
    IF ~(j < functionDefinitions) THEN errs
    ELSE DuplicateFunctionLoop(i, j + 1,
            IF StrEq(functions[i + 1].name, functions[j + 1].name)
            THEN printSemanticErrorWithExtraLineNumber(errs, MsgDuplicateFn,
                     functions[j + 1].definedInLine, functions[i + 1].definedInLine)
            ELSE errs)

\* lines 145-158: one iteration of the outer loop of the name checks
CheckFunctionName ==
    /\ pc = "fn_names"
    /\ nameIndex < functionDefinitions
    /\ mainFunctionExists' = IF StrEq(functions[nameIndex + 1].name, mainFuncName)
                             THEN 1 ELSE mainFunctionExists
    /\ errors' = DuplicateFunctionLoop(nameIndex, nameIndex + 1, errors)
    /\ nameIndex' = nameIndex + 1
    /\ UNCHANGED << commands, compileMode, MACOS, pc, functionDefinitions, functions,
                    functionArrayIndex, commandArrayIndex, comparisonVars,
                    translatorVars, expandVars >>

\* mutant: the compile mode is not looked at
MainFunctionMissing_AnyMode == mainFunctionExists = 0

\* line 160: the condition of the main-function error
MainFunctionMissing == compileMode = executable /\ mainFunctionExists = 0

\* lines 160-167: the main-function check, then the analyzer returns
CheckMainFunction ==
    /\ pc = "fn_names"
    /\ nameIndex >= functionDefinitions
    /\ errors' = IF MainFunctionMissing
                 THEN printSemanticError(errors, MsgNoMain, 1)
                 ELSE errors
    /\ pc' = "fn_done"
    /\ UNCHANGED << commands, compileMode, MACOS, functionDefinitions, functions,
                    functionArrayIndex, commandArrayIndex, mainFunctionExists,
                    nameIndex, comparisonVars,
                    translatorVars, expandVars >>

-----------------------------------------------------------------------------
(* The streams the function analyzer is run on *)

FunctionNames == { "main", "_main", "f" }

ReturnOpcodes == { 1, 3 }

OtherOpcodes == { 4 }

FunctionAlphabet ==
    { [ opcode |-> functionDeclarationOpcode, p0 |-> n, p1 |-> NullParameter ] :
        n \in FunctionNames }
    \cup { [ opcode |-> o, p0 |-> NullParameter, p1 |-> NullParameter ] :
             o \in ReturnOpcodes \cup OtherOpcodes }

\* the parser numbers the lines from 1 and reads the commands in source order
StreamOf(word, stride) ==
    [ k \in 1..Len(word) |->
        parsedCommand(word[k].opcode, word[k].p0, word[k].p1, k * stride) ]

Words(alphabet, maxLen) == UNION { [ 1..n -> alphabet ] : n \in 0..maxLen }

\* the analyzers read neither the command table nor the translation options
NoTranslation ==
    /\ commandList = << >>
    /\ optimisationLevel = "none"
    /\ useStabs = FALSE
    /\ randomIndex = 0

InitLocals ==
    /\ errors = << >>
    /\ functionDefinitions = 0
    /\ functions = << >>
    /\ functionArrayIndex = 0
    /\ commandArrayIndex = 0
    /\ mainFunctionExists = 0
    /\ nameIndex = 0
    /\ comparisons = << >>
    /\ comparisonJumpLabels = << >>
    /\ labelIndex = 0
    /\ comparisonIndex = 0
    /\ jumpMarkerDefined = 0
    /\ pictureIndex = 0
    /\ output = << >>
    /\ translatorState = [ currentFunctionName |-> NullParameter, DNLABEL |-> 0 ]
    /\ translateIndex = 0
    /\ lookaheadReads = {}
    /\ run = 1
    /\ firstOutput = << >>
    /\ expandResult = << >>

InitFunctions ==
    /\ \E word \in Words(FunctionAlphabet, MaxLen), stride \in 1..MaxLineStride :
          commands = StreamOf(word, stride)
    /\ compileMode \in { executable, objectFile }
    /\ MACOS \in BOOLEAN
    /\ pc = "fn_count"
    /\ InitLocals
    /\ NoTranslation

NextFunctions ==
    \/ CountFunctionDefinitions
    \/ ReportStatement
    \/ ParseNextFunction
    \/ EndOfWalk
    \/ CheckFunctionName
    \/ CheckMainFunction

SpecFunctions == InitFunctions /\ [][NextFunctions]_vars

-----------------------------------------------------------------------------
(* The structure of a stream, stated on the stream alone *)

Indices == 0 .. (size - 1)

IsDecl(i) == Cmd(i).opcode = 0

IsRet(i) == Cmd(i).opcode \in 1..3

Line(i) == Cmd(i).lineNum

\* d is the declaration of the function that the command at i belongs to
DeclaredBy(d, i) ==
    /\ d \in Indices /\ i \in Indices /\ d <= i
    /\ IsDecl(d)
    /\ \A k \in (d + 1)..i : ~IsDecl(k)

\* the function declared at d has a return
HasReturn(d) == \E r \in Indices : IsRet(r) /\ DeclaredBy(d, r)

\* i lies between a declaration and the last return of that function
InBody(i) ==
    \E d \in Indices : /\ DeclaredBy(d, i)
                       /\ \E r \in Indices : r >= i /\ IsRet(r) /\ DeclaredBy(d, r)

\* i lies after a return of the function it belongs to
AfterReturn(i) ==
    \E d \in Indices : /\ DeclaredBy(d, i)
                       /\ \E r \in Indices : r < i /\ IsRet(r) /\ DeclaredBy(d, r)

ErrorsAt(message, lineNum) ==
    { k \in 1..Len(errors) : errors[k].message = message /\ errors[k].lineNum = lineNum }

ErrorsOf(message) == { k \in 1..Len(errors) : errors[k].message = message }

FunctionAnalysisDone == pc = "fn_done"

-----------------------------------------------------------------------------
\* C1: after checkFunctionValidity, every command with opcode # 0 that lies
\* outside every function extent (before the first declaration, after the last
\* return of its function, or in a function without a return) has exactly one
\* 'Statement does not belong to any function' error, at its own line; a
\* command between a declaration and that function's last return has none, and
\* no such error is printed at any other line.
C1_StatementOutsideFunction ==
    FunctionAnalysisDone =>
        /\ \A i \in Indices : ~IsDecl(i) =>
              Cardinality(ErrorsAt(MsgNoFunction, Line(i))) = (IF InBody(i) THEN 0 ELSE 1)
        /\ \A k \in ErrorsOf(MsgNoFunction) :
              \E i \in Indices : ~IsDecl(i) /\ ~InBody(i) /\ Line(i) = errors[k].lineNum

\* a stream with a floating statement before the first declaration, a body
\* statement and a statement after the last return, all analysed
C1_Witness ==
    /\ FunctionAnalysisDone
    /\ \E i, j, k \in Indices :
          /\ ~IsDecl(i) /\ (\A d \in 0..i : ~IsDecl(d))
          /\ Cardinality(ErrorsAt(MsgNoFunction, Line(i))) = 1
          /\ ~IsDecl(j) /\ InBody(j)
          /\ Cardinality(ErrorsAt(MsgNoFunction, Line(j))) = 0
          /\ ~IsDecl(k) /\ AfterReturn(k) /\ ~InBody(k)
          /\ Cardinality(ErrorsAt(MsgNoFunction, Line(k))) = 1

\* C2 as stated: no command after a return of its function (and before the
\* next declaration) gets 'Statement does not belong to any function'.
C2_AfterReturnNeverReported ==
    FunctionAnalysisDone =>
        \A i \in Indices : (~IsDecl(i) /\ AfterReturn(i)) =>
            ErrorsAt(MsgNoFunction, Line(i)) = {}

\* C2, amended: a command after a return of its function gets no 'Statement
\* does not belong to any function' error exactly when it is at or before a
\* later return of that function (the last return ends the body); after the
\* last return it gets the error once.
C2_LastReturnEndsBody ==
    FunctionAnalysisDone =>
        \A i \in Indices : (~IsDecl(i) /\ AfterReturn(i)) =>
            Cardinality(ErrorsAt(MsgNoFunction, Line(i))) =
                (IF \E d, r \in Indices : r >= i /\ IsRet(r) /\ DeclaredBy(d, r)
                                          /\ DeclaredBy(d, i)
                 THEN 0 ELSE 1)

\* a statement that is no return sits between two returns of one function and
\* is accepted
C2_Witness ==
    /\ FunctionAnalysisDone
    /\ \E i \in Indices :
          /\ ~IsDecl(i) /\ ~IsRet(i) /\ AfterReturn(i) /\ InBody(i)
          /\ ErrorsAt(MsgNoFunction, Line(i)) = {}

\* the declaration before the declaration at d (d is not the first one)
PreviousDecl(d) == CHOOSE p \in Indices : p < d /\ DeclaredBy(p, d - 1)

IsFirstDecl(d) == IsDecl(d) /\ \A p \in 0..(d - 1) : ~IsDecl(p)

\* C3: 'No return statement found' is printed (once) at a declaration's line
\* iff no return opcode 1..3 occurs between it and the next declaration or the
\* end of the stream; 'Expected a return statement, but got a new function
\* definition' is printed (once) at a declaration's line iff the function
\* declared before it has no return; a function with a return gets neither.
C3_ReturnDiagnostics ==
    FunctionAnalysisDone =>
        /\ \A d \in Indices : IsDecl(d) =>
              /\ Cardinality(ErrorsAt(MsgNoReturn, Line(d))) =
                    (IF HasReturn(d) THEN 0 ELSE 1)
              /\ Cardinality(ErrorsAt(MsgExpectedRet, Line(d))) =
                    (IF ~IsFirstDecl(d) /\ ~HasReturn(PreviousDecl(d)) THEN 1 ELSE 0)
        /\ \A i \in Indices : ~IsDecl(i) =>
              /\ ErrorsAt(MsgNoReturn, Line(i)) = {}
              /\ ErrorsAt(MsgExpectedRet, Line(i)) = {}
        /\ \A k \in ErrorsOf(MsgNoReturn) \cup ErrorsOf(MsgExpectedRet) :
              \E d \in Indices : IsDecl(d) /\ Line(d) = errors[k].lineNum

\* a function without a return that is ended by a new declaration, and a
\* function with a return (on opcode 3, the last of the family)
C3_Witness ==
    /\ FunctionAnalysisDone
    /\ \E d, e, r \in Indices :
          /\ IsDecl(d) /\ IsDecl(e) /\ d < e /\ DeclaredBy(d, e - 1)
          /\ ~HasReturn(d)
          /\ Cardinality(ErrorsAt(MsgNoReturn, Line(d))) = 1
          /\ Cardinality(ErrorsAt(MsgExpectedRet, Line(e))) = 1
          /\ DeclaredBy(e, r) /\ Cmd(r).opcode = 3
          /\ ErrorsAt(MsgNoReturn, Line(e)) = {}

\* the duplicate errors that name the lines primary and extra
DuplicateErrors(message, primary, extra) ==
    { k \in ErrorsOf(message) :
        errors[k].lineNum = primary /\ errors[k].extraLineNum = extra }

DeclPairs == { pr \in Indices \X Indices : pr[1] < pr[2] /\ IsDecl(pr[1]) /\ IsDecl(pr[2]) }

\* C4: for every pair of function declarations, 'Duplicate function
\* definition' is printed exactly once with the later declaration's line as the
\* primary line and the earlier one's as the extra line if the two names are
\* equal, and not at all if they differ; no other such error is printed (n
\* declarations of one name give n*(n-1)/2 errors).
C4_DuplicateFunctionDefinitions ==
    FunctionAnalysisDone =>
        /\ \A pr \in DeclPairs :
              Cardinality(DuplicateErrors(MsgDuplicateFn, Line(pr[2]), Line(pr[1]))) =
                  (IF Param(Cmd(pr[1]), 0) = Param(Cmd(pr[2]), 0) THEN 1 ELSE 0)
        /\ Cardinality(ErrorsOf(MsgDuplicateFn)) =
              Cardinality({ pr \in DeclPairs :
                              Param(Cmd(pr[1]), 0) = Param(Cmd(pr[2]), 0) })

\* three declarations of one name and a fourth of another name: three errors
C4_Witness ==
    /\ FunctionAnalysisDone
    /\ \E a, b, c \in Indices :
          /\ a < b /\ b < c /\ IsDecl(a) /\ IsDecl(b) /\ IsDecl(c)
          /\ Param(Cmd(a), 0) = Param(Cmd(b), 0) /\ Param(Cmd(b), 0) = Param(Cmd(c), 0)
    /\ \E d \in Indices : IsDecl(d) /\ Param(Cmd(d), 0) # Param(Cmd(0), 0)
    /\ Cardinality(ErrorsOf(MsgDuplicateFn)) = 3

\* the stream [declaration f, return]
IsFooStream ==
    /\ size = 2
    /\ IsDecl(0) /\ Param(Cmd(0), 0) = "f"
    /\ IsRet(1)

C6_AcceptedStreamWellFormed ==
    (FunctionAnalysisDone /\ errors = << >>) =>
        /\ \A i \in Indices : ~IsDecl(i) => \E d \in Indices : DeclaredBy(d, i)
        /\ \A d \in Indices : IsDecl(d) => HasReturn(d)
        /\ \A d \in Indices : (IsDecl(d) /\ d > 0) => IsRet(d - 1)
        /\ size > 0 => IsRet(size - 1)
        /\ \A pr \in DeclPairs : Param(Cmd(pr[1]), 0) # Param(Cmd(pr[2]), 0)

\* an accepted stream of two functions
C6_Witness ==
    /\ FunctionAnalysisDone
    /\ errors = << >>
    /\ Cardinality({ d \in Indices : IsDecl(d) }) = 2

-----------------------------------------------------------------------------
(* checkWhoWouldWinValidity *)

\* lines 72-91: the comparisons of the stream, in stream order
CollectComparisons(compareOpcode) ==
    LET found == SelectSeq(commands, LAMBDA c : c.opcode = compareOpcode)
    IN  [ k \in 1..Len(found) |->
            [ parameter1    |-> Param(found[k], 0),
              parameter2    |-> Param(found[k], 1),
              definedInLine |-> found[k].lineNum ] ]

\* lines 72-91: the jump labels of the stream, in stream order
CollectJumpLabels(compareOpcode) ==
    LET found == SelectSeq(commands, LAMBDA c : c.opcode # compareOpcode
                                                /\ c.opcode = compareOpcode + 1)
    IN  [ k \in 1..Len(found) |->
            [ parameter     |-> Param(found[k], 0),
              definedInLine |-> found[k].lineNum ] ]

comparisonsUsed == Len(comparisons)

comparisonJumpLabelsUsed == Len(comparisonJumpLabels)

\* lines 46-91: count, allocate and fill the two arrays
CollectWhoWouldWin ==
    /\ pc = "www_collect"
    /\ comparisons' = CollectComparisons(whoWouldWinOpcode)
    /\ comparisonJumpLabels' = CollectJumpLabels(whoWouldWinOpcode)
    /\ labelIndex' = 0
    /\ pc' = "www_duplicity"
    /\ UNCHANGED << commands, compileMode, MACOS, errors, functionVars, translatorVars, expandVars,
                    comparisonIndex, jumpMarkerDefined, pictureIndex >>

\* mutant: the inner loop starts one label too late
RECURSIVE DuplicateLabelLoop_SkipsNeighbour(_, _, _)
DuplicateLabelLoop_SkipsNeighbour(i, j, errs) ==
    IF ~(j < comparisonJumpLabelsUsed) THEN errs
    ELSE DuplicateLabelLoop_SkipsNeighbour(i, j + 1,
            IF j > i + 1 /\ StrEq(comparisonJumpLabels[i + 1].parameter,
                                  comparisonJumpLabels[j + 1].parameter)
            THEN printSemanticErrorWithExtraLineNumber(errs, MsgMarkerTwice,
                     comparisonJumpLabels[j + 1].definedInLine,
                     comparisonJumpLabels[i + 1].definedInLine)
            ELSE errs)

\* lines 101-106: the inner loop of the duplicity check
RECURSIVE DuplicateLabelLoop(_, _, _)
DuplicateLabelLoop(i, j, errs) ==
    IF ~(j < comparisonJumpLabelsUsed) THEN errs
    ELSE DuplicateLabelLoop(i, j + 1,
            IF StrEq(comparisonJumpLabels[i + 1].parameter,
                     comparisonJumpLabels[j + 1].parameter)
            THEN printSemanticErrorWithExtraLineNumber(errs, MsgMarkerTwice,
                     comparisonJumpLabels[j + 1].definedInLine,
                     comparisonJumpLabels[i + 1].definedInLine)
            ELSE errs)

\* lines 99-107: one iteration of the outer loop of the duplicity check
CheckLabelDuplicity ==
    /\ pc = "www_duplicity"
    /\ labelIndex < comparisonJumpLabelsUsed
    /\ errors' = DuplicateLabelLoop(labelIndex, labelIndex + 1, errors)
    /\ labelIndex' = labelIndex + 1
    /\ UNCHANGED << commands, compileMode, MACOS, pc, functionVars, translatorVars, expandVars, comparisons,
                    comparisonJumpLabels, comparisonIndex, jumpMarkerDefined,
                    pictureIndex >>

\* line 99, 109: the duplicity check is over, the existence check starts
EndOfLabelDuplicity ==
    /\ pc = "www_duplicity"
    /\ labelIndex >= comparisonJumpLabelsUsed
    /\ comparisonIndex' = 0
    /\ pc' = "www_existence"
    /\ UNCHANGED << commands, compileMode, MACOS, errors, functionVars, translatorVars, expandVars, comparisons,
                    comparisonJumpLabels, labelIndex, jumpMarkerDefined, pictureIndex >>

\* lines 115-123: the inner loop: is some label's parameter equal to p
RECURSIVE ParameterDefined(_, _, _)
ParameterDefined(p, j, defined) ==
    IF ~(j < comparisonJumpLabelsUsed) THEN defined
    ELSE ParameterDefined(p, j + 1,
            IF StrEq(p, comparisonJumpLabels[j + 1].parameter) THEN 1 ELSE defined)

\* mutant: the second parameter is looked up with the first one's flag
ExistenceErrors_SecondFollowsFirst(i, errs) ==
    LET parameter1Defined == ParameterDefined(comparisons[i + 1].parameter1, 0, 0)
        first == IF parameter1Defined = 0
                 THEN printSemanticError(errs, MsgNoFirst, comparisons[i + 1].definedInLine)
                 ELSE errs
    IN  IF parameter1Defined = 0
        THEN printSemanticError(first, MsgNoSecond, comparisons[i + 1].definedInLine)
        ELSE first

\* lines 110-130: the errors of the comparison at index i
ExistenceErrors(i, errs) ==
    LET parameter1Defined == ParameterDefined(comparisons[i + 1].parameter1, 0, 0)
        parameter2Defined == ParameterDefined(comparisons[i + 1].parameter2, 0, 0)
        first == IF parameter1Defined = 0
                 THEN printSemanticError(errs, MsgNoFirst, comparisons[i + 1].definedInLine)
                 ELSE errs
    IN  IF parameter2Defined = 0
        THEN printSemanticError(first, MsgNoSecond, comparisons[i + 1].definedInLine)
        ELSE first

\* lines 109-131: one iteration of the existence check
CheckComparisonLabels ==
    /\ pc = "www_existence"
    /\ comparisonIndex < comparisonsUsed
    /\ errors' = ExistenceErrors(comparisonIndex, errors)
    /\ comparisonIndex' = comparisonIndex + 1
    /\ UNCHANGED << commands, compileMode, MACOS, pc, functionVars, translatorVars, expandVars, comparisons,
                    comparisonJumpLabels, labelIndex, jumpMarkerDefined, pictureIndex >>

\* lines 133-138: the arrays are freed and the analyzer returns; the next
\* analyzer starts
EndOfWhoWouldWin ==
    /\ pc = "www_existence"
    /\ comparisonIndex >= comparisonsUsed
    /\ comparisons' = << >>
    /\ comparisonJumpLabels' = << >>
    /\ pc' = "picture_scan"
    /\ UNCHANGED << commands, compileMode, MACOS, errors, functionVars, translatorVars, expandVars, labelIndex,
                    comparisonIndex, jumpMarkerDefined, pictureIndex >>

-----------------------------------------------------------------------------
(* checkTheyreTheSamePictureValidity *)

\* mutant: the scan stops before the last command
RECURSIVE JumpMarkerScan_StopsEarly(_, _, _)
JumpMarkerScan_StopsEarly(compareOpcode, i, marker) ==
    IF ~(i < size - 1) THEN marker
    ELSE JumpMarkerScan_StopsEarly(compareOpcode, i + 1,
            IF Cmd(i).opcode = compareOpcode + 1 THEN Cmd(i).lineNum ELSE marker)

\* lines 151-157: the first scan, from index i with jumpMarkerDefined = marker
RECURSIVE JumpMarkerScan(_, _, _)
JumpMarkerScan(compareOpcode, i, marker) ==
    IF ~(i < size) THEN marker
    ELSE JumpMarkerScan(compareOpcode, i + 1,
            IF Cmd(i).opcode = compareOpcode + 1 THEN Cmd(i).lineNum ELSE marker)

\* lines 148-157: look for the jump label
ScanForJumpMarker ==
    /\ pc = "picture_scan"
    /\ jumpMarkerDefined' = JumpMarkerScan(comparisonOpcode, 0, 0)
    /\ pictureIndex' = 0
    /\ pc' = "picture_report"
    /\ UNCHANGED << commands, compileMode, MACOS, errors, functionVars, translatorVars, expandVars, comparisons,
                    comparisonJumpLabels, labelIndex, comparisonIndex >>

\* lines 160-165: no label was found and the command at i is a comparison
ReportMissingPicture ==
    /\ pc = "picture_report"
    /\ jumpMarkerDefined = 0
    /\ pictureIndex < size
    /\ Cmd(pictureIndex).opcode = comparisonOpcode
    /\ errors' = printSemanticError(errors, MsgNoPicture, Cmd(pictureIndex).lineNum)
    /\ pictureIndex' = pictureIndex + 1
    /\ UNCHANGED << commands, compileMode, MACOS, pc, functionVars, translatorVars, expandVars, comparisons,
                    comparisonJumpLabels, labelIndex, comparisonIndex, jumpMarkerDefined >>

\* lines 161-166: no label was found and the command at i is no comparison
SkipOtherCommand ==
    /\ pc = "picture_report"
    /\ jumpMarkerDefined = 0
    /\ pictureIndex < size
    /\ Cmd(pictureIndex).opcode # comparisonOpcode
    /\ pictureIndex' = pictureIndex + 1
    /\ UNCHANGED << commands, compileMode, MACOS, errors, pc, functionVars, translatorVars, expandVars, comparisons,
                    comparisonJumpLabels, labelIndex, comparisonIndex, jumpMarkerDefined >>

\* lines 160-169: a label was found, or the second scan is over
EndOfSamePicture ==
    /\ pc = "picture_report"
    /\ jumpMarkerDefined # 0 \/ pictureIndex >= size
    /\ pc' = "cmp_done"
    /\ UNCHANGED << commands, compileMode, MACOS, errors, functionVars, comparisonVars,
                    translatorVars, expandVars >>

-----------------------------------------------------------------------------
(* The streams the comparison analyzers are run on *)

LabelParameters == { "x", "y" }

ComparisonAlphabet ==
    { [ opcode |-> whoWouldWinOpcode, p0 |-> a, p1 |-> b ] :
        a \in LabelParameters, b \in LabelParameters }
    \cup { [ opcode |-> whoWouldWinOpcode + 1, p0 |-> a, p1 |-> NullParameter ] :
             a \in LabelParameters }
    \cup { [ opcode |-> comparisonOpcode, p0 |-> "rax", p1 |-> "rbx" ],
           [ opcode |-> comparisonOpcode + 1, p0 |-> NullParameter, p1 |-> NullParameter ] }
    \cup { [ opcode |-> o, p0 |-> NullParameter, p1 |-> NullParameter ] :
             o \in OtherOpcodes }

InitComparisons ==
    /\ \E word \in Words(ComparisonAlphabet, MaxLen), stride \in 1..MaxLineStride :
          commands = StreamOf(word, stride)
    /\ compileMode = objectFile
    /\ MACOS = FALSE
    /\ pc = "www_collect"
    /\ InitLocals
    /\ NoTranslation

NextComparisons ==
    \/ CollectWhoWouldWin
    \/ CheckLabelDuplicity
    \/ EndOfLabelDuplicity
    \/ CheckComparisonLabels
    \/ EndOfWhoWouldWin
    \/ ScanForJumpMarker
    \/ ReportMissingPicture
    \/ SkipOtherCommand
    \/ EndOfSamePicture

SpecComparisons == InitComparisons /\ [][NextComparisons]_vars

-----------------------------------------------------------------------------
(* The comparisons and labels of a stream, stated on the stream alone *)

IsWhoWouldWin(i) == Cmd(i).opcode = whoWouldWinOpcode

IsWinsLabel(i) == Cmd(i).opcode = whoWouldWinOpcode + 1

IsPictureComparison(i) == Cmd(i).opcode = comparisonOpcode

IsPictureLabel(i) == Cmd(i).opcode = comparisonOpcode + 1

\* some 'p wins' label of the stream declares the parameter p
Declared(p) == \E l \in Indices : IsWinsLabel(l) /\ Param(Cmd(l), 0) = p

ComparisonAnalysisDone == pc = "cmp_done"

\* C7: for every "Who would win?" comparison, 'No comparison jump marker
\* defined for first parameter' is printed (once, at the comparison's line) iff
\* no label declaration anywhere in the stream has the comparison's first
\* parameter, and the 'second parameter' error likewise for the second one,
\* each independently of the other; without such errors every comparison
\* parameter has a label declaration.
C7_ComparisonLabelExistence ==
    ComparisonAnalysisDone =>
        /\ \A c \in Indices : IsWhoWouldWin(c) =>
              /\ Cardinality(ErrorsAt(MsgNoFirst, Line(c))) =
                    (IF Declared(Param(Cmd(c), 0)) THEN 0 ELSE 1)
              /\ Cardinality(ErrorsAt(MsgNoSecond, Line(c))) =
                    (IF Declared(Param(Cmd(c), 1)) THEN 0 ELSE 1)
        /\ \A k \in ErrorsOf(MsgNoFirst) \cup ErrorsOf(MsgNoSecond) :
              \E c \in Indices : IsWhoWouldWin(c) /\ Line(c) = errors[k].lineNum
        /\ (ErrorsOf(MsgNoFirst) \cup ErrorsOf(MsgNoSecond) = {}) =>
              \A c \in Indices : IsWhoWouldWin(c) =>
                  Declared(Param(Cmd(c), 0)) /\ Declared(Param(Cmd(c), 1))

\* a comparison of x and y whose x is declared by a later label and whose y is
\* declared nowhere: only the 'second parameter' error, at the comparison
C7_Witness ==
    /\ ComparisonAnalysisDone
    /\ \E c, l \in Indices :
          /\ c < l /\ IsWhoWouldWin(c) /\ IsWinsLabel(l)
          /\ Param(Cmd(c), 0) = "x" /\ Param(Cmd(c), 1) = "y"
          /\ Param(Cmd(l), 0) = "x"
          /\ errors = << [ message |-> MsgNoSecond, lineNum |-> Line(c) ] >>

LabelPairs ==
    { pr \in Indices \X Indices : pr[1] < pr[2] /\ IsWinsLabel(pr[1]) /\ IsWinsLabel(pr[2]) }

\* C8: for every pair of "Who would win?" label declarations, 'Comparison
\* jump markers cannot be defined twice' is printed exactly once with the later
\* declaration's line as the primary line and the earlier one's as the extra
\* line if the two parameters are equal, and not at all if they differ; no
\* other such error is printed.
C8_DuplicateJumpMarkers ==
    ComparisonAnalysisDone =>
        /\ \A pr \in LabelPairs :
              Cardinality(DuplicateErrors(MsgMarkerTwice, Line(pr[2]), Line(pr[1]))) =
                  (IF Param(Cmd(pr[1]), 0) = Param(Cmd(pr[2]), 0) THEN 1 ELSE 0)
        /\ Cardinality(ErrorsOf(MsgMarkerTwice)) =
              Cardinality({ pr \in LabelPairs :
                              Param(Cmd(pr[1]), 0) = Param(Cmd(pr[2]), 0) })

\* three declarations of one label: three errors, one for each pair
C8_Witness ==
    /\ ComparisonAnalysisDone
    /\ \E a, b, c \in Indices :
          /\ a < b /\ b < c /\ IsWinsLabel(a) /\ IsWinsLabel(b) /\ IsWinsLabel(c)
          /\ Param(Cmd(a), 0) = Param(Cmd(b), 0) /\ Param(Cmd(b), 0) = Param(Cmd(c), 0)
          /\ Cardinality(DuplicateErrors(MsgMarkerTwice, Line(c), Line(a))) = 1
    /\ Cardinality(ErrorsOf(MsgMarkerTwice)) = 3

C10_LabelsDeclaredOnce ==
    (ComparisonAnalysisDone /\ errors = << >>) =>
        /\ \A pr \in LabelPairs : Param(Cmd(pr[1]), 0) # Param(Cmd(pr[2]), 0)
        /\ Cardinality({ l \in Indices : IsPictureLabel(l) }) <= 1

-----------------------------------------------------------------------------
(* The walk of checkFunctionValidity, stated on the stream alone *)

DeclsBefore(i) == { d \in Indices : d < i /\ IsDecl(d) }

\* the position in the descriptor array of the declaration at d (from 1)
DeclNumber(d) == Cardinality(DeclsBefore(d)) + 1

\* C17: a function without a return that is ended by a new declaration gets
\* the body length "commands scanned so far" (those between the two
\* declarations), and none of its body commands is examined again as a
\* statement between functions.
C17_ReturnlessBodyLength ==
    FunctionAnalysisDone =>
        \A d, e \in Indices :
            (IsDecl(d) /\ IsDecl(e) /\ d < e /\ DeclaredBy(d, e - 1) /\ ~HasReturn(d)) =>
                /\ functions[DeclNumber(d)].numberOfCommands = e - d - 1
                /\ \A i \in (d + 1)..(e - 1) : ErrorsAt(MsgNoFunction, Line(i)) = {}

\* what holds at every point of the walk and of the name checks
C19_WalkInvariant ==
    /\ (pc \in { "fn_walk", "fn_names", "fn_done" }) =>
          /\ commandArrayIndex <= size
          /\ functionDefinitions = Cardinality({ d \in Indices : IsDecl(d) })
          /\ Len(functions) = functionDefinitions
          \* no declaration was skipped and none was parsed twice
          /\ functionArrayIndex = Cardinality(DeclsBefore(commandArrayIndex))
          /\ \A d \in DeclsBefore(commandArrayIndex) :
                /\ functions[DeclNumber(d)].name = Param(Cmd(d), 0)
                /\ functions[DeclNumber(d)].definedInLine = Line(d)
                \* the body ends before the next declaration
                /\ \A k \in (d + 1)..(d + functions[DeclNumber(d)].numberOfCommands) :
                      k \in Indices /\ ~IsDecl(k)
          \* the descriptors not yet written are still zeroed
          /\ \A k \in (functionArrayIndex + 1)..functionDefinitions :
                functions[k] = ZeroFunction
    \* the write of the next descriptor is inside the array
    /\ (pc = "fn_walk" /\ commandArrayIndex < size /\ IsDecl(commandArrayIndex)) =>
          functionArrayIndex < functionDefinitions
    \* the name checks read initialised descriptors only
    /\ (pc \in { "fn_names", "fn_done" }) =>
          /\ functionArrayIndex = functionDefinitions
          /\ \A k \in 1..functionDefinitions : functions[k] # ZeroFunction
    \* the analyzer is never stuck before it returns
    /\ (pc \in { "fn_count", "fn_walk", "fn_names" }) => ENABLED NextFunctions

\* every iteration of the two loops advances its loop variable
C19_WalkStep ==
    /\ (pc = "fn_walk" /\ pc' = "fn_walk") => commandArrayIndex' > commandArrayIndex
    /\ (pc = "fn_names" /\ pc' = "fn_names") => nameIndex' > nameIndex
    /\ (pc = "fn_walk") => functionArrayIndex' \in { functionArrayIndex, functionArrayIndex + 1 }

\* C19: checkFunctionValidity terminates (its cursor strictly increases up to
\* the stream size and it is never stuck), it skips no declaration and parses
\* none twice, the descriptors written are as many as the declarations counted
\* by the first pass, no descriptor is written outside the array and all are
\* initialised before the name checks.
C19_WalkTerminates == [] C19_WalkInvariant /\ [][C19_WalkStep]_vars

\* a function without a return followed by its body and a second function,
\* both parsed
C19_Witness ==
    /\ FunctionAnalysisDone
    /\ \E d, e \in Indices :
          /\ IsDecl(d) /\ IsDecl(e) /\ e > d + 1 /\ DeclaredBy(d, e - 1) /\ ~HasReturn(d)
          /\ HasReturn(e)
          /\ functions[DeclNumber(e)].numberOfCommands >= 1
    /\ functionArrayIndex = 2


----------------------------------------------------------------------------
\* The translator (translator.c).

\* the characters of the templates and parameters of this model, with their codes
Ascii ==
    (" " :> 32) @@ ("/" :> 47) @@ ("0" :> 48) @@ ("1" :> 49) @@ ("2" :> 50) @@
    ("3" :> 51) @@ ("8" :> 56) @@ (":" :> 58) @@ ("[" :> 91) @@ ("]" :> 93) @@
    ("_" :> 95) @@ ("a" :> 97) @@ ("e" :> 101) @@ ("f" :> 102) @@ ("i" :> 105) @@
    ("m" :> 109) @@ ("n" :> 110) @@ ("o" :> 111) @@ ("p" :> 112) @@
    ("r" :> 114) @@ ("t" :> 116) @@ ("x" :> 120)

\* the characters of a parameter string
ParameterChars ==
    ("main" :> << "m", "a", "i", "n" >>) @@ ("_main" :> << "_", "m", "a", "i", "n" >>) @@
    ("f" :> << "f" >>) @@ ("x" :> << "x" >>) @@ ("r8" :> << "r", "8" >>)

strlen(string) == Len(ParameterChars[string])

\* character >= '0' && character <= (char) command.usedParameters + 47
IsPlaceholder(character, usedParameters) ==
    Ascii[character] >= 48 /\ Ascii[character] <= usedParameters + 47

\* mutant: the brackets go around the parameter whose index equals isPointer
IsPointerPlaceholder_IndexNotPlusOne(character, isPointer) ==
    isPointer = Ascii[character] - 48

\* parsedCommand.isPointer == (character - 48) + 1
IsPointerPlaceholder(character, isPointer) ==
    isPointer = (Ascii[character] - 48) + 1

\* the first pass over the template: strLen
RECURSIVE FirstPass(_, _, _, _)
FirstPass(translationPattern, usedParameters, cmd, i) ==
    IF i = 0 THEN Len(translationPattern)
    ELSE LET character == translationPattern[i]
             rest == FirstPass(translationPattern, usedParameters, cmd, i - 1)
         IN  IF IsPlaceholder(character, usedParameters)
             THEN rest + strlen(cmd.parameters[Ascii[character] - 48 + 1])
                       + (IF IsPointerPlaceholder(character, cmd.isPointer) THEN 2 ELSE 0)
             ELSE rest

\* the second pass over the template: translatedLine
RECURSIVE SecondPass(_, _, _, _)
SecondPass(translationPattern, usedParameters, cmd, i) ==
    IF i = 0 THEN << >>
    ELSE LET character == translationPattern[i]
             rest == SecondPass(translationPattern, usedParameters, cmd, i - 1)
             parameter == ParameterChars[cmd.parameters[Ascii[character] - 48 + 1]]
         IN  IF IsPlaceholder(character, usedParameters)
             THEN IF IsPointerPlaceholder(character, cmd.isPointer)
                  THEN rest \o << "[" >> \o parameter \o << "]" >>
                  ELSE rest \o parameter
             ELSE rest \o << character >>

\* the template expansion of translateToAssembly: the buffer that is allocated,
\* the line that is built in it, and whether a tab is written before the line
ExpandTemplate(cmd) ==
    LET command == commandList[cmd.opcode]
        translationPattern == command.translationPattern
        patternLen == Len(translationPattern)
    IN  [ bufferSize     |-> FirstPass(translationPattern, command.usedParameters,
                                       cmd, patternLen) + 3,
          translatedLine |-> SecondPass(translationPattern, command.usedParameters,
                                        cmd, patternLen),
          tab            |-> cmd.opcode # 0 ]

\* Template expansion on its own: one command, one table entry for its opcode.
MaxPatternLen == 3

MAX_PARAMETER_COUNT == 2

TemplateCharacters == { "/", "0", "1", "2", "a" }

ParameterStrings == { "x", "r8" }

\* the parser fills the first usedParameters parameters of a command
ParametersFor(usedParameters) ==
    { ps \in [ 1..MAX_PARAMETER_COUNT -> ParameterStrings \cup { NullParameter } ] :
        \A k \in 1..MAX_PARAMETER_COUNT :
            (ps[k] = NullParameter) <=> (k > usedParameters) }

InitExpand ==
    /\ \E translationPattern \in Words(TemplateCharacters, MaxPatternLen),
          usedParameters \in 0..MAX_PARAMETER_COUNT,
          opcode \in { functionDeclarationOpcode } \cup OtherOpcodes,
          isPointer \in 0..MAX_PARAMETER_COUNT :
          \E ps \in ParametersFor(usedParameters) :
              /\ commands = << [ parsedCommand(opcode, ps[1], ps[2], 1)
                                   EXCEPT !.isPointer = isPointer ] >>
              /\ commandList = ( opcode :>
                                   [ usedParameters     |-> usedParameters,
                                     translationPattern |-> translationPattern ] )
    /\ compileMode = executable
    /\ MACOS = FALSE
    /\ optimisationLevel = "none"
    /\ useStabs = FALSE
    /\ randomIndex = 0
    /\ pc = "ex_start"
    /\ InitLocals

\* lines 141-198 of translateToAssembly for commands[1]
Expand ==
    /\ pc = "ex_start"
    /\ expandResult' = ExpandTemplate(Cmd(0))
    /\ pc' = "ex_done"
    /\ UNCHANGED << commands, compileMode, MACOS, errors, functionVars, comparisonVars,
                    translatorVars >>

NextExpand == Expand

SpecExpand == InitExpand /\ [][NextExpand]_vars

----------------------------------------------------------------------------
\* What the specification says about the expansion.

DigitValue == ("0" :> 0) @@ ("1" :> 1) @@ ("2" :> 2)

IsSubstituted(c, usedParameters) ==
    c \in DOMAIN DigitValue /\ DigitValue[c] < usedParameters

ExpansionOf(c, cmd, usedParameters) ==
    IF IsSubstituted(c, usedParameters)
    THEN LET parameter == ParameterChars[cmd.parameters[DigitValue[c] + 1]]
         IN  IF cmd.isPointer = DigitValue[c] + 1
             THEN << "[" >> \o parameter \o << "]" >>
             ELSE parameter
    ELSE << c >>

RECURSIVE ExpansionOfAll(_, _, _)
ExpansionOfAll(pattern, cmd, usedParameters) ==
    IF pattern = << >> THEN << >>
    ELSE ExpansionOf(Head(pattern), cmd, usedParameters)
         \o ExpansionOfAll(Tail(pattern), cmd, usedParameters)

ExpandDone == pc = "ex_done"

\* C18: the written line is the template with every digit below usedParameters
\* replaced by its parameter, in brackets exactly when isPointer is the index
\* plus one, and every other character copied; a tab is written before the line
\* iff the opcode is not 0; the line and its terminator fit in the buffer, whose
\* size is the length of the template plus the lengths of the substituted
\* parameters plus 2 for each pair of brackets plus 3.
C18_TemplateExpansion ==
    ExpandDone =>
        LET cmd == Cmd(0)
            command == commandList[cmd.opcode]
            expected == ExpansionOfAll(command.translationPattern, cmd,
                                       command.usedParameters)
        IN  /\ expandResult.translatedLine = expected
            /\ expandResult.tab <=> (cmd.opcode # 0)
            \* each substituted digit is counted with the template and is not written
            /\ expandResult.bufferSize =
                   Len(expected)
                   + Cardinality({ k \in DOMAIN command.translationPattern :
                                     IsSubstituted(command.translationPattern[k],
                                                   command.usedParameters) })
                   + 3
            /\ Len(expandResult.translatedLine) + 1 <= expandResult.bufferSize
            /\ command.usedParameters = 0 =>
                   expandResult.translatedLine = command.translationPattern

\* a parameter in brackets, a parameter without, and a digit that is copied
C18_Witness ==
    /\ ExpandDone
    /\ commandList[Cmd(0).opcode].translationPattern = << "0", "1", "2" >>
    /\ commandList[Cmd(0).opcode].usedParameters = 2
    /\ Cmd(0).isPointer = 2
    /\ expandResult.translatedLine = << "r", "8", "[", "x", "]", "2" >>
    /\ expandResult.tab

----------------------------------------------------------------------------
\* The translator on whole streams (writeToFile and translateToAssembly).

\* the command table of this model: function declaration, return, a command
\* without parameters, and the breakpoint, whose template is int3
CommandTable ==
    (0 :> [ usedParameters |-> 1, translationPattern |-> << "0", ":" >> ]) @@
    (3 :> [ usedParameters |-> 0, translationPattern |-> << "r", "e", "t" >> ]) @@
    (4 :> [ usedParameters |-> 0, translationPattern |-> << "n", "o", "p" >> ]) @@
    (5 :> [ usedParameters |-> 0, translationPattern |-> << "i", "n", "t", "3" >> ])

BreakpointOpcodes == { 5 }

OptimisationLevels == { "none", "o_1", "o_2", "o_3", "o_s", "o42069" }

\* strcmp(commandList[opcode].translationPattern, "int3") == 0
stabs_ignore(opcode) ==
    commandList[opcode].translationPattern = << "i", "n", "t", "3" >>

\* one piece of text written to outputFile: what it is, the string and the number
\* printed in it, the translated line, and the index of the command whose
\* translateToAssembly call (or loop iteration) wrote it, -1 outside the loop
Piece(kind, name, num, chars, index) ==
    [ kind |-> kind, name |-> name, num |-> num, chars |-> chars, index |-> index ]

\* fprintf(outputFile, "\t.Lret_%s:\n", translatorState -> currentFunctionName)
stabs_writeFunctionEndLabel(state, index) ==
    Piece("Lret_label",
          IF state.currentFunctionName = NullParameter
          THEN "(null)" ELSE state.currentFunctionName,
          0, << >>, index)

\* fprintf(outputFile, "\t.Lcmd_%d:\n", parsedCommand.lineNum)
stabs_writeLineLabel(cmd, index) == Piece("Lcmd_label", "", cmd.lineNum, << >>, index)

\* fprintf(outputFile, "\t.stabn %d, 0, %d, .Lcmd_%d\n", N_SLINE, lineNum, lineNum)
stabs_writeLineInfo(cmd, index) == Piece("stabn_SLINE", "", cmd.lineNum, << >>, index)

\* the three directives of one function
stabs_writeFunctionInfo(functionName) ==
    << Piece("stabs_F1", functionName, 0, << >>, -1),
       Piece("stabn_LBRAC", functionName, 0, << >>, -1),
       Piece("stabn_RBRAC", functionName, 0, << >>, -1) >>

\* what a read of arrayPointer[index] gives: the command, or any bytes past the
\* end of the array
GarbageCommands ==
    { parsedCommand(o, NullParameter, NullParameter, 0) : o \in { 0, 4 } }

ReadCommand(index) == IF index < size THEN { Cmd(index) } ELSE GarbageCommands

\* mutant: the next opcode is tested before the size
FunctionEndReads_NextOpcodeFirst(index) == { index + 1 }

\* size == index + 1 || arrayPointer[index + 1].opcode == 0: the indices it reads
FunctionEndReads(index) == IF size = index + 1 THEN { } ELSE { index + 1 }

FunctionEnds(index, next) == size = index + 1 \/ next.opcode = 0

\* mutant: every command is translated at every optimisation level
OptimisedOut_Never(cmd) == FALSE

\* parsedCommand.opcode != 0 && optimisationLevel == o42069
OptimisedOut(cmd) == cmd.opcode # 0 /\ optimisationLevel = "o42069"

\* the commands inserted after the line for the optimisation level
Padding(index) ==
    IF optimisationLevel \in { "o_1", "o_2", "o_3", "o42069" }
    THEN << Piece("padding", optimisationLevel, 0, << >>, index) >>
    ELSE << >>

\* translateToAssembly for the command at index, with the translator state it is
\* given and what the read of arrayPointer[index + 1] gives: the pieces written,
\* the translator state left, the indices index + 1 that were read, and the
\* position in the pieces of a %s that was given NULL (0 if there is none)
translateToAssembly(index, state, next) ==
    LET cmd == Cmd(index)
        opcode == cmd.opcode
        ignore == stabs_ignore(opcode)
        labelState ==
            IF ~useStabs THEN state
            ELSE IF opcode = 0
                 THEN [ state EXCEPT !.currentFunctionName = cmd.parameters[1] ]
            ELSE IF ignore THEN [ state EXCEPT !.DNLABEL = 1 ]
            ELSE IF state.DNLABEL = 0 THEN state
            ELSE [ state EXCEPT !.DNLABEL = 0 ]
        label ==
            IF ~useStabs \/ opcode = 0 THEN << >>
            ELSE IF ignore THEN << stabs_writeLineLabel(next, index) >>
            ELSE IF state.DNLABEL = 0 THEN << stabs_writeLineLabel(cmd, index) >>
            ELSE << >>
        labelReads == IF useStabs /\ opcode # 0 /\ ignore THEN { index + 1 } ELSE { }
        expansion == ExpandTemplate(cmd)
        line ==
            (IF expansion.tab THEN << Piece("tab", "", 0, << >>, index) >> ELSE << >>)
            \o << Piece("line", "", 0, expansion.translatedLine, index) >>
        isReturn == useStabs /\ opcode # 0 /\ opcode > 0 /\ opcode <= 3
        endReads == IF isReturn THEN FunctionEndReads(index) ELSE { }
        endLabel ==
            IF isReturn /\ FunctionEnds(index, next)
            THEN << stabs_writeFunctionEndLabel(labelState, index) >>
            ELSE << >>
        lineInfo ==
            IF useStabs /\ opcode # 0 /\ ~ignore
            THEN << stabs_writeLineInfo(cmd, index) >>
            ELSE << >>
        before == label \o line \o Padding(index)
    IN  IF OptimisedOut(cmd)
        THEN [ out |-> << >>, state |-> state, reads |-> { }, nullAt |-> 0 ]
        ELSE [ out    |-> before \o endLabel \o lineInfo,
               state  |-> labelState,
               reads  |-> labelReads \cup endReads,
               nullAt |-> IF endLabel # << >>
                             /\ labelState.currentFunctionName = NullParameter
                          THEN Len(before) + 1 ELSE 0 ]

\* opcode == 0 && translate == 1
IsTranslatedFunction(cmd) == cmd.opcode = 0 /\ cmd.translate = 1

\* mutant: a .global line for every declaration
GlobalDirectives_EveryDeclaration ==
    LET fs == SelectSeq(commands, LAMBDA cmd : cmd.opcode = 0)
    IN  [ k \in 1..Len(fs) |-> Piece("global", fs[k].parameters[1], 0, << >>, -1) ]

\* the loop that writes the .global lines
GlobalDirectives ==
    LET fs == SelectSeq(commands, IsTranslatedFunction)
    IN  [ k \in 1..Len(fs) |-> Piece("global", fs[k].parameters[1], 0, << >>, -1) ]

\* writeToFile up to the translation loop
Prelude ==
    << Piece("comment", "", 0, << >>, -1),
       Piece("intel_syntax", "", 0, << >>, -1) >>
    \o GlobalDirectives
    \o << Piece("data_section", IF MACOS THEN ".data" ELSE ".section .data",
                0, << >>, -1),
          Piece("data", "", 0, << >>, -1) >>
    \o (IF useStabs THEN << Piece("stabs_file", "", 0, << >>, -1) >> ELSE << >>)
    \o << Piece("text_section", IF MACOS THEN ".text" ELSE ".section .text",
                0, << >>, -1),
          Piece("Ltext0", "", 0, << >>, -1) >>

\* mutant: the translator state of the previous run is kept
InitialTranslatorState_Kept(previous) == previous

\* struct translatorState translatorState = { NULL, 0 }
InitialTranslatorState(previous) ==
    [ currentFunctionName |-> NullParameter, DNLABEL |-> 0 ]

\* mutant: the label is only written for a command that is translated
ConfusedStonks_OnlyTranslated(i) ==
    IF i = randomIndex /\ Cmd(i).translate = 1
    THEN << Piece("LConfusedStonks", "", 0, << >>, i) >> ELSE << >>

\* if(i == randomIndex) fprintf(outputFile, "\t.LConfusedStonks: ")
ConfusedStonks(i) ==
    IF i = randomIndex THEN << Piece("LConfusedStonks", "", 0, << >>, i) >> ELSE << >>

\* the loop that writes the function info of every translated function
RECURSIVE FunctionInfos(_)
FunctionInfos(i) ==
    IF i = 0 THEN << >>
    ELSE FunctionInfos(i - 1)
         \o (IF IsTranslatedFunction(Cmd(i - 1))
             THEN stabs_writeFunctionInfo(Cmd(i - 1).parameters[1]) ELSE << >>)

\* writeToFile after the translation loop
Epilogue ==
    (IF optimisationLevel # "o42069"
     THEN << Piece("helpers", "", 0, << >>, -1) >> ELSE << >>)
    \o (IF useStabs
        THEN FunctionInfos(size)
             \o << Piece("LEOF", "", 0, << >>, -1),
                   Piece("stabs_SO_end", "", 0, << >>, -1) >>
        ELSE << >>)
    \o (IF optimisationLevel = "o_s" THEN << Piece("align", "", 0, << >>, -1) >>
        ELSE << >>)

unchangedByTranslator ==
    << commands, compileMode, MACOS, errors, functionVars, comparisonVars, expandVars,
       commandList, optimisationLevel, useStabs, randomIndex >>

WritePrelude ==
    /\ pc = "tr_start"
    /\ output' = Prelude
    /\ translatorState' = InitialTranslatorState(translatorState)
    /\ translateIndex' = 0
    /\ pc' = "tr_loop"
    /\ UNCHANGED << unchangedByTranslator, lookaheadReads, run, firstOutput >>

TranslateCommand ==
    /\ pc = "tr_loop"
    /\ translateIndex < size
    /\ Cmd(translateIndex).translate = 1
    /\ \E next \in ReadCommand(translateIndex + 1) :
          LET r == translateToAssembly(translateIndex, translatorState, next)
          IN  /\ output' = output \o ConfusedStonks(translateIndex) \o r.out
              /\ translatorState' = r.state
              /\ lookaheadReads' = lookaheadReads \cup r.reads
    /\ translateIndex' = translateIndex + 1
    /\ UNCHANGED << unchangedByTranslator, pc, run, firstOutput >>

\* printing NULL with %s is undefined: the C library may print (null), as in
\* TranslateCommand, or the program may stop there
TranslateCommandCrashes ==
    /\ pc = "tr_loop"
    /\ translateIndex < size
    /\ Cmd(translateIndex).translate = 1
    /\ \E next \in ReadCommand(translateIndex + 1) :
          LET r == translateToAssembly(translateIndex, translatorState, next)
          IN  /\ r.nullAt > 0
              /\ output' = output \o ConfusedStonks(translateIndex)
                                  \o SubSeq(r.out, 1, r.nullAt - 1)
              /\ translatorState' = r.state
              /\ lookaheadReads' = lookaheadReads \cup r.reads
    /\ pc' = "tr_crashed"
    /\ UNCHANGED << unchangedByTranslator, translateIndex, run, firstOutput >>

SkipCommand ==
    /\ pc = "tr_loop"
    /\ translateIndex < size
    /\ Cmd(translateIndex).translate # 1
    /\ output' = output \o ConfusedStonks(translateIndex)
    /\ translateIndex' = translateIndex + 1
    /\ UNCHANGED << unchangedByTranslator, pc, translatorState, lookaheadReads, run,
                    firstOutput >>

WriteEpilogue ==
    /\ pc = "tr_loop"
    /\ translateIndex = size
    /\ output' = output \o Epilogue
    /\ pc' = "tr_done"
    /\ UNCHANGED << unchangedByTranslator, translatorState, translateIndex,
                    lookaheadReads, run, firstOutput >>

\* writeToFile is called again on the same compileState, with a new output file
SecondRun ==
    /\ pc = "tr_done"
    /\ run = 1
    /\ firstOutput' = output
    /\ output' = << >>
    /\ run' = 2
    /\ pc' = "tr_start"
    /\ UNCHANGED << unchangedByTranslator, translatorState, translateIndex,
                    lookaheadReads >>

\* a stream that the function analyzer accepts without an error: the stream
\* starts with a declaration, the command before every later declaration and
\* the last command are returns, no two functions have the same name, and an
\* executable has a main function
AcceptedStream(s, mode, mainName) ==
    LET isDecl(k) == s[k].opcode = functionDeclarationOpcode
        isRet(k) == IsReturnOpcode(s[k].opcode, functionDeclarationOpcode)
    IN  /\ Len(s) > 0 => (isDecl(1) /\ isRet(Len(s)))
        /\ \A k \in 2..Len(s) : isDecl(k) => isRet(k - 1)
        /\ \A j, k \in 1..Len(s) :
               (j < k /\ isDecl(j) /\ isDecl(k)) => s[j].parameters[1] # s[k].parameters[1]
        /\ mode = executable =>
               \E k \in 1..Len(s) : isDecl(k) /\ s[k].parameters[1] = mainName

\* the function analyzer reports nothing exactly for these streams
AcceptedIffNoError ==
    FunctionAnalysisDone =>
        ((errors = << >>) <=> AcceptedStream(commands, compileMode, mainFuncName))

TranslatorAlphabet ==
    { [ opcode |-> functionDeclarationOpcode, p0 |-> n, p1 |-> NullParameter ] :
        n \in { "main", "f" } }
    \cup { [ opcode |-> o, p0 |-> NullParameter, p1 |-> NullParameter ] :
             o \in { 3 } \cup OtherOpcodes \cup BreakpointOpcodes }

\* any assignment of the translate flags to the commands of a stream
WithTranslateFlags(s, flags) == [ k \in 1..Len(s) |-> [ s[k] EXCEPT !.translate = flags[k] ] ]

\* writeToFile is called for a stream that the analyzers accepted, with any
\* translate flags, options and random index (size when no command is chosen)
InitTranslate ==
    /\ compileMode = executable
    /\ MACOS = FALSE
    /\ \E s \in { StreamOf(word, MaxLineStride) : word \in Words(TranslatorAlphabet, MaxLen) } :
          /\ AcceptedStream(s, executable, "main")
          /\ \E flags \in [ 1..Len(s) -> { 0, 1 } ] : commands = WithTranslateFlags(s, flags)
    /\ commandList = CommandTable
    /\ optimisationLevel \in OptimisationLevels
    /\ useStabs \in BOOLEAN
    /\ randomIndex \in 0..size
    /\ pc = "tr_start"
    /\ InitLocals

NextTranslate ==
    \/ WritePrelude
    \/ TranslateCommand
    \/ TranslateCommandCrashes
    \/ SkipCommand
    \/ WriteEpilogue
    \/ SecondRun

SpecTranslate == InitTranslate /\ [][NextTranslate]_vars

TranslationDone == pc = "tr_done"

----------------------------------------------------------------------------
\* What the specification says about the translator.

PositionsOf(kind) == { k \in 1..Len(output) : output[k].kind = kind }

TranslatedFunctions == { i \in Indices : IsDecl(i) /\ Cmd(i).translate = 1 }

\* the position of a translated function among the translated functions
FunctionRank(i) == Cardinality({ j \in TranslatedFunctions : j <= i })

PreludeWritten == pc \in { "tr_loop", "tr_done", "tr_crashed" }

\* C11: the output has one '.global <name>' line for each declaration with
\* translate = 1 and no other, in source order, all of them after
\* '.intel_syntax noprefix' and before the data section.
C11_GlobalDirectives ==
    PreludeWritten =>
        LET globals == SelectSeq(output, LAMBDA piece : piece.kind = "global")
        IN  /\ Len(globals) = Cardinality(TranslatedFunctions)
            /\ \A i \in TranslatedFunctions :
                   globals[FunctionRank(i)].name = Param(Cmd(i), 0)
            /\ \A g \in PositionsOf("global") :
                   /\ \E k \in PositionsOf("intel_syntax") : k < g
                   /\ \E k \in PositionsOf("data_section") : g < k
                   /\ \A k \in PositionsOf("data_section") : g < k
            /\ Cardinality(PositionsOf("intel_syntax")) = 1

\* two functions, of which only the second one is translated
C11_Witness ==
    /\ TranslationDone
    /\ \E d, e \in Indices :
          /\ d < e /\ IsDecl(d) /\ IsDecl(e)
          /\ Cmd(d).translate = 0 /\ Cmd(e).translate = 1
          /\ \E g \in PositionsOf("global") : output[g].name = Param(Cmd(e), 0)
    /\ Cardinality(PositionsOf("global")) = 1

PiecesNamed(kind, name) ==
    { k \in PositionsOf(kind) : output[k].name = name }

\* C12: with STABS, for every declaration with translate = 1 the epilogue has
\* exactly one ':F1' record with its N_LBRAC and N_RBRAC directives, and the
\* body has exactly one '.Lret_<name>:' label, at every optimisation level and
\* for every assignment of the translate flags.
C12_FunctionRecords ==
    (TranslationDone /\ useStabs) =>
        \A i \in TranslatedFunctions :
            LET name == Param(Cmd(i), 0)
            IN  /\ Cardinality(PiecesNamed("stabs_F1", name)) = 1
                /\ Cardinality(PiecesNamed("stabn_LBRAC", name)) = 1
                /\ Cardinality(PiecesNamed("stabn_RBRAC", name)) = 1
                /\ Cardinality(PiecesNamed("Lret_label", name)) = 1

PiecesNumbered(kind, num) ==
    { k \in PositionsOf(kind) : output[k].num = num }

LineNumbers == { Line(i) : i \in Indices }

\* C13: with STABS, every '.Lcmd_<n>:' label that is written is referenced by
\* exactly one N_SLINE directive, and every N_SLINE directive references a label
\* that is written exactly once, also after breakpoints, after consecutive
\* breakpoints and after a breakpoint followed by a command with translate = 0.
C13_LineLabels ==
    (TranslationDone /\ useStabs) =>
        \A n \in LineNumbers :
            /\ PiecesNumbered("Lcmd_label", n) # {} =>
                   Cardinality(PiecesNumbered("stabn_SLINE", n)) = 1
            /\ PiecesNumbered("stabn_SLINE", n) # {} =>
                   Cardinality(PiecesNumbered("Lcmd_label", n)) = 1

\* what the translation loop wrote, in order
Body == SelectSeq(output, LAMBDA piece : piece.index # -1)

\* the declaration line of a function followed by 'xor rax, rax' and 'ret'
IsPrologueOf(pieces, k, i) ==
    /\ pieces[2 * k - 1] =
           Piece("line", "", 0, ParameterChars[Param(Cmd(i), 0)] \o << ":" >>, i)
    /\ pieces[2 * k] = Piece("padding", "o42069", 0, << >>, i)

OnlyPrologues(pieces) ==
    /\ Len(pieces) = 2 * Cardinality(TranslatedFunctions)
    /\ \A i \in TranslatedFunctions : IsPrologueOf(pieces, FunctionRank(i), i)

\* C14 as stated: at o42069 the body holds, for each declaration with
\* translate = 1 in source order, the declaration line, 'xor rax, rax' and 'ret',
\* and nothing else; no other command writes anything and the helper functions
\* are not written.
C14_OnlyPrologues ==
    (TranslationDone /\ optimisationLevel = "o42069") =>
        /\ OnlyPrologues(Body)
        /\ PositionsOf("helpers") = {}

\* C14, amended: the same apart from the '.LConfusedStonks:' label, which the
\* translation loop writes once at randomIndex at every optimisation level.
C14_OnlyProloguesAndLabel ==
    (TranslationDone /\ optimisationLevel = "o42069") =>
        /\ OnlyPrologues(SelectSeq(Body, LAMBDA piece : piece.kind # "LConfusedStonks"))
        /\ Cardinality(PositionsOf("LConfusedStonks")) = (IF randomIndex < size THEN 1 ELSE 0)
        /\ \A k \in 1..Len(output) :
               (output[k].index # -1 /\ ~IsDecl(output[k].index)) =>
                   (output[k].kind = "LConfusedStonks" /\ output[k].index = randomIndex)
        /\ PositionsOf("helpers") = {}

\* two translated functions with STABS, whose translated returns write nothing,
\* and the label at the first return
C14_Witness ==
    /\ TranslationDone /\ optimisationLevel = "o42069" /\ useStabs
    /\ Cardinality(TranslatedFunctions) = 2
    /\ \A i \in Indices : Cmd(i).translate = 1
    /\ randomIndex = 1 /\ IsRet(1)
    /\ Len(Body) = 5

\* the piece written right after the piece at position k is the translated line
\* of the command at i (with its tab)
OwnLineAfter(k, i) ==
    /\ k < Len(output)
    /\ output[k + 1].index = i
    /\ output[k + 1].kind \in { "tab", "line" }

\* C15 as stated: the '.LConfusedStonks:' label is written once if
\* randomIndex < size and never otherwise, and it is directly followed by the
\* translated line of the command at randomIndex, whatever the translate flag
\* of that command, the optimisation level and useStabs.
C15_LabelPrefixesOwnLine ==
    TranslationDone =>
        /\ Cardinality(PositionsOf("LConfusedStonks")) = (IF randomIndex < size THEN 1 ELSE 0)
        /\ \A k \in PositionsOf("LConfusedStonks") : OwnLineAfter(k, randomIndex)

\* a translated breakpoint before i wrote the label of the command at i
LabelWrittenInAdvance(i) ==
    \E j \in Indices :
        /\ j < i
        /\ Cmd(j).opcode \in BreakpointOpcodes /\ Cmd(j).translate = 1
        /\ \A k \in (j + 1)..(i - 1) : Cmd(k).translate # 1 \/ IsDecl(k)

\* the first thing that the iteration for the command at i writes is its line
WritesOwnLineFirst(i) ==
    /\ Cmd(i).translate = 1
    /\ ~(Cmd(i).opcode # 0 /\ optimisationLevel = "o42069")
    /\ \/ ~useStabs
       \/ IsDecl(i)
       \/ Cmd(i).opcode \notin BreakpointOpcodes /\ LabelWrittenInAdvance(i)

\* C15, amended: the label is written once if randomIndex < size and never
\* otherwise, without a line break, so that it is followed by whatever is
\* written next: the translated line of the command at randomIndex exactly if
\* that command is translated and writes no STABS label first, and else the
\* STABS label of that command, the output of a later command, the helpers or
\* the epilogue, or nothing.
C15_LabelPrefixesNextOutput ==
    TranslationDone =>
        /\ Cardinality(PositionsOf("LConfusedStonks")) = (IF randomIndex < size THEN 1 ELSE 0)
        /\ \A k \in PositionsOf("LConfusedStonks") :
               /\ output[k].index = randomIndex
               /\ OwnLineAfter(k, randomIndex) <=> WritesOwnLineFirst(randomIndex)
               /\ (k < Len(output) /\ ~WritesOwnLineFirst(randomIndex)) =>
                      \/ /\ output[k + 1].kind = "Lcmd_label"
                         /\ output[k + 1].index = randomIndex
                      \/ output[k + 1].index > randomIndex
                      \/ output[k + 1].index = -1

\* with STABS the label is followed by the line label of the command
C15_Witness ==
    /\ TranslationDone /\ useStabs /\ optimisationLevel = "o_2"
    /\ randomIndex < size
    /\ Cmd(randomIndex).opcode \in OtherOpcodes /\ Cmd(randomIndex).translate = 1
    /\ \E k \in PositionsOf("LConfusedStonks") :
          /\ output[k + 1] = stabs_writeLineLabel(Cmd(randomIndex), randomIndex)
          /\ output[k + 2].kind = "tab"

\* C16: a second call of writeToFile on the same compileState writes the same
\* output as the first one, and no step of the translator changes a command.
C16_SameOutputTwice ==
    /\ [] ((run = 2 /\ TranslationDone) => output = firstOutput)
    /\ [] [commands' = commands]_vars

\* the first run ended with DNLABEL set and a function name stored, and the
\* second run wrote the same output, with a line label in it
C16_Witness ==
    /\ run = 2 /\ TranslationDone /\ useStabs
    /\ translatorState.DNLABEL = 1
    /\ translatorState.currentFunctionName # NullParameter
    /\ \E i \in Indices : Cmd(i).opcode \in OtherOpcodes /\ Cmd(i).translate = 1
    /\ PositionsOf("Lcmd_label") # {}
    /\ output = firstOutput

\* C20: for an accepted stream, with any translate flags, optimisation level
\* and useStabs, every read of arrayPointer[index + 1] by translateToAssembly
\* (for the label after a breakpoint and for the opcode after a return) is a
\* read of a command of the stream.
C20_LookaheadInBounds ==
    /\ \A i \in lookaheadReads : i < size
    /\ pc = "tr_loop" =>
           \A next \in ReadCommand(translateIndex + 1) :
               (translateIndex < size /\ Cmd(translateIndex).translate = 1) =>
                   \A i \in translateToAssembly(translateIndex, translatorState, next).reads :
                       i < size

\* the command after a translated breakpoint was read, and the translated last
\* return read nothing
C20_Witness ==
    /\ TranslationDone /\ useStabs /\ optimisationLevel # "o42069"
    /\ \E i \in Indices : /\ Cmd(i).opcode \in BreakpointOpcodes /\ Cmd(i).translate = 1
                          /\ i + 1 \in lookaheadReads
    /\ Cmd(size - 1).translate = 1
    /\ PositionsOf("Lret_label") # {}
    /\ size \notin lookaheadReads

====
